---------------------------- MODULE Spec2Model ----------------------------
(***************************************************************************)
(* monaco-spellchecker: getSpellchecker(monaco, editor, opts).             *)
(*                                                                         *)
(* A state machine of one spellchecker instance attached to one editor:    *)
(* the debounced process() scan with its suspension points on an           *)
(* asynchronous check, the marker set published under the owner tag, the   *)
(* code-action provider, the editor actions (correct, ignore, addWord),    *)
(* and dispose().  One action of the model is the code that runs between   *)
(* two suspension points of the single JavaScript thread.                  *)
(*                                                                         *)
(* Text is a sequence of one-character strings.  Time is counted in ticks  *)
(* of the timer behind window.setTimeout.                                  *)
(***************************************************************************)
EXTENDS Integers, Sequences, FiniteSets, TLC

(***************************************************************************)
(* Bounds of the model.                                                    *)
(***************************************************************************)
\* The marker limit of process() (500 in the source), scaled down so that a
\* document can exceed it.
MarkerLimit == 2
\* opts.debounceInterval (default 500), in ticks.
DebounceInterval == 2
\* Scan sessions started in one behaviour.
MaxScans == 3
\* Ignore / add-word callbacks unsettled at one time.
MaxPendingFixes == 2
\* Edits made through the correct action in one behaviour.
MaxEdits == 1
\* Calls the host and the user make in one behaviour: edits, process(),
\* dispose(), quick-fix queries and their cancellation, chosen actions.
MaxEvents == 2
\* The length of the lines the default tokenizer is tried on.
MaxLineLen == 5

(***************************************************************************)
(* Characters and texts.                                                   *)
(***************************************************************************)
NL == "\n"

Letters == {"T", "h", "s", "i", "f", "e", "n", "z", "q"}

\* [a-zA-Z'] : the character class of wordReg.
IsClassChar(c) == c \in Letters \/ c = "'"

\* \w of a JavaScript regular expression: [A-Za-z0-9_].
IsWordChar(c) == c \in Letters \/ c \in {"0", "1", "_"}

Ths == <<"T", "h", "s">>
This == <<"T", "h", "i", "s">>
The == <<"T", "h", "e">>
is == <<"i", "s">>
fien == <<"f", "i", "e", "n">>
fine == <<"f", "i", "n", "e">>
zz == <<"z", "z">>
qq == <<"q", "q">>

\* "Ths is fien."
DocEssay == Ths \o <<" ">> \o is \o <<" ">> \o fien \o <<".">>
\* "zz qq\nThs fien\nis" : two misspelled tokens on each of two lines.
DocOver == zz \o <<" ">> \o qq \o <<NL>> \o Ths \o <<" ">> \o fien \o <<NL>> \o is
\* "is"
DocClean == is

Docs == {DocEssay, DocOver, DocClean}

\* The words the host dictionary accepts when the editor is created.
InitialDict == {is, This, The, fine}

\* The words a user runs the ignore / add-word action on.
FixWords == {Ths}

(***************************************************************************)
(* text.split('\n')                                                        *)
(***************************************************************************)
RECURSIVE SplitFrom(_, _, _)
SplitFrom(text, i, cur) ==
    IF i > Len(text) THEN <<cur>>
    ELSE IF text[i] = NL THEN <<cur>> \o SplitFrom(text, i + 1, <<>>)
    ELSE SplitFrom(text, i + 1, Append(cur, text[i]))

SplitLines(text) == SplitFrom(text, 1, <<>>)

(***************************************************************************)
(* defaultTokenize: /\b[a-zA-Z']+\b/g, matches shorter than 2 dropped.     *)
(* Positions i are 1-based indexes into the line; pos is 0-based.          *)
(***************************************************************************)
\* A variant of the pattern without \b: [a-zA-Z']+ alone.
BoundaryAnywhere(line, i) == TRUE

\* \b between line[i-1] and line[i] (i in 1..Len+1).
Boundary(line, i) ==
    LET before == i > 1 /\ IsWordChar(line[i - 1])
        after == i <= Len(line) /\ IsWordChar(line[i])
    IN  before # after

\* Length of the run of class characters starting at i.
RECURSIVE ClassRun(_, _)
ClassRun(line, i) ==
    IF i <= Len(line) /\ IsClassChar(line[i]) THEN 1 + ClassRun(line, i + 1) ELSE 0

\* The greedy quantifier backtracks to the longest k in 1..run with \b after it.
RECURSIVE MatchLen(_, _, _)
MatchLen(line, i, k) ==
    IF k = 0 THEN 0
    ELSE IF Boundary(line, i + k) THEN k
    ELSE MatchLen(line, i, k - 1)

\* The length of the match that starts at i, 0 when none does.
MatchAt(line, i) ==
    IF Boundary(line, i) THEN MatchLen(line, i, ClassRun(line, i)) ELSE 0

\* The wordReg.exec loop from lastIndex = i - 1.
RECURSIVE TokenizeFrom(_, _)
TokenizeFrom(line, i) ==
    IF i > Len(line) THEN <<>>
    ELSE LET k == MatchAt(line, i)
         IN  IF k = 0 THEN TokenizeFrom(line, i + 1)
             ELSE IF k < 2 THEN TokenizeFrom(line, i + k)
             ELSE <<[word |-> SubSeq(line, i, i + k - 1), pos |-> i - 1]>>
                      \o TokenizeFrom(line, i + k)

defaultTokenize(line) == TokenizeFrom(line, 1)


(***************************************************************************)
(* The host's callbacks.                                                   *)
(***************************************************************************)
\* opts.suggest: the corrections the host dictionary offers, best first.
suggest(word) ==
    IF word = Ths THEN <<This, The>>
    ELSE IF word = fien THEN <<fine>>
    ELSE <<>>

\* opts.check against the host's dictionary d.
check(word, d) == word \in d

(***************************************************************************)
(* State.                                                                  *)
(***************************************************************************)
VARIABLES
    checkAsync,   \* opts.check returns a Promise (TRUE) or a boolean (FALSE)
    hasIgnore,    \* opts.ignore is configured
    hasAddWord,   \* opts.addWord is configured
    hasCheck,     \* opts.check is a function
    hasSuggest,   \* opts.suggest is a function
    doc,          \* model.getValue(): the text of the editor's model
    dict,         \* the host dictionary: the words check accepts
    disposed,     \* let disposed
    disposables,  \* const disposables: the registrations still held
    timer,        \* the timeout behind timeoutId: ticks left, NoTimer if none
    sessions,     \* the invocations of the async callback of process, by start order
    published,    \* the markers of owner 'spellchecker' on the model
    otherMarkers, \* the markers of that owner on the model of a second editor,
                  \* published by the instance attached to that editor
    query,        \* the provideCodeActions call suspended on suggest
    result,       \* what provideCodeActions returned last
    pendingFix,   \* ignore / addWord callbacks invoked and not yet settled
    publisher,    \* history: the session whose marks are published, 0 if none
    armedBy,      \* history: the kind of process() call that armed the pending timer
    burst,        \* history: a change re-armed the timer a change had armed
    elapsed,      \* history: ticks since the last process() call
    edits,        \* history: edits made by the correct action
    events,       \* history: the calls made by the host and the user, in order
    disposeCalls, \* history: calls of dispose()
    lastOp,       \* history: the operation the last step ran
    lastExec,     \* history: the action descriptor executed by the last step
    invoked,      \* history: the host callback invoked by the last step
    lastEdit,     \* history: the edit of the correct action, until the user edits
    thrown,       \* history: the callback whose failure the last step let escape
    asked         \* history: the range the last step called provideCodeActions with

vars == <<checkAsync, hasIgnore, hasAddWord, hasCheck, hasSuggest, doc, dict, disposed, disposables,
          timer, sessions, published, otherMarkers, query, result, pendingFix, publisher,
          armedBy, burst, elapsed, edits, events, disposeCalls, lastOp, lastExec,
          invoked, lastEdit, thrown, asked>>

config == <<checkAsync, hasIgnore, hasAddWord, hasCheck, hasSuggest>>

NoTimer == -1

\* No marker / no range: an absent object.
NoMarker == [code |-> <<>>, startLineNumber |-> 0, startColumn |-> 0,
             endLineNumber |-> 0, endColumn |-> 0]

\* No range asked about.
NoRange == [startLineNumber |-> 0, startColumn |-> 0,
            endLineNumber |-> 0, endColumn |-> 0]

NoQuery == [active |-> FALSE, marker |-> NoMarker, cancelled |-> FALSE]

\* provideCodeActions returning null.
Null == [ok |-> FALSE, actions |-> <<>>]

\* The arguments of a command: the object {range, suggestion} of a replace
\* action, or the bare string of an ignore / add-word action.
EditArgs(marker, suggestion) ==
    [isObject |-> TRUE, range |-> marker, suggestion |-> suggestion, word |-> <<>>]

WordArgs(word) ==
    [isObject |-> FALSE, range |-> NoMarker, suggestion |-> <<>>, word |-> word]

NoExec == [label |-> "none", text |-> <<>>, command |-> "none",
           args |-> WordArgs(<<>>), ranges |-> NoMarker]

NoCallback == [cb |-> "none", word |-> <<>>]

\* No edit made by the correct action.
NoEdit == [done |-> FALSE, range |-> NoMarker, text |-> <<>>, scans |-> 0]

\* ignoreActionId, addWordActionId, correctActionId.
ignoreActionId == "spellchecker.ignore"
addWordActionId == "spellchecker.addWord"
correctActionId == "spellchecker.correct"

\* The registrations getSpellchecker makes: the three editor actions, the
\* code-action provider and the onDidChangeModelContent subscription.
Registrations(ig, aw) ==
    {correctActionId, "codeActionProvider", "onDidChangeModelContent"}
        \cup (IF ig THEN {ignoreActionId} ELSE {})
        \cup (IF aw THEN {addWordActionId} ELSE {})

(***************************************************************************)
(* process(): the scan loop.                                               *)
(***************************************************************************)
\* A variant that starts every marker at the first column of its line.
MarkFromLineStart(word, pos, lineIndex) ==
    [code |-> word,
     startLineNumber |-> lineIndex + 1,
     startColumn |-> 1,
     endLineNumber |-> lineIndex + 1,
     endColumn |-> pos + 1 + Len(word)]

\* The marker pushed for a misspelled token of line lineIndex (0-based).
Mark(word, pos, lineIndex) ==
    [code |-> word,
     startLineNumber |-> lineIndex + 1,
     startColumn |-> pos + 1,
     endLineNumber |-> lineIndex + 1,
     endColumn |-> pos + 1 + Len(word)]

\* Entering a line: marks.length > 500 ends the loop.
LimitReached(n) == n > MarkerLimit

\* tokenize(lines[lineIndex]) for every line of the text read by model.getValue():
\* what an invocation of the loop iterates over.
Words(text) ==
    LET lines == SplitLines(text)
    IN  [i \in 1..Len(lines) |-> defaultTokenize(lines[i])]

\* The next token the loop checks from token ti (1-based) of line li (0-based),
\* with n marks so far: <<li, ti>>, or <<-1, 0>> when the loop ends.  The limit
\* is tested where a line is entered, not between the tokens of a line.
RECURSIVE NextToken(_, _, _, _)
NextToken(words, li, ti, n) ==
    IF li >= Len(words) THEN <<-1, 0>>
    ELSE IF ti = 1 /\ LimitReached(n) THEN <<-1, 0>>
    ELSE IF ti > Len(words[li + 1]) THEN NextToken(words, li + 1, 1, n)
    ELSE <<li, ti>>

\* A variant that puts a new marker in front of the others.
ClassifiedInFront(words, li, ti, marks, isCorrect) ==
    LET tok == words[li + 1][ti]
    IN  IF isCorrect THEN marks ELSE <<Mark(tok.word, tok.pos, li)>> \o marks

\* A variant that flags the words check accepts.
ClassifiedInverted(words, li, ti, marks, isCorrect) ==
    LET tok == words[li + 1][ti]
    IN  IF isCorrect THEN Append(marks, Mark(tok.word, tok.pos, li)) ELSE marks

\* marks after the verdict on token ti of line li.
Classified(words, li, ti, marks, isCorrect) ==
    LET tok == words[li + 1][ti]
    IN  IF isCorrect THEN marks ELSE Append(marks, Mark(tok.word, tok.pos, li))

\* The whole loop with a synchronous check: the marks handed to setModelMarkers.
RECURSIVE ScanFrom(_, _, _, _)
ScanFrom(words, at, marks, d) ==
    IF at[1] < 0 THEN marks
    ELSE LET tok == words[at[1] + 1][at[2]]
             next == Classified(words, at[1], at[2], marks, check(tok.word, d))
         IN  ScanFrom(words, NextToken(words, at[1], at[2] + 1, Len(next)), next, d)

Scan(text, d) ==
    LET words == Words(text)
    IN  ScanFrom(words, NextToken(words, 0, 1, 0), <<>>, d)

(***************************************************************************)
(* debounce(callback, wait)                                                *)
(***************************************************************************)
\* A variant that runs the callback without waiting.
RearmedWithoutWait(pending, wait) == 0

\* A variant without clearTimeout and restart: a pending timeout stands.
RearmedKeepsPending(pending, wait) == IF pending # NoTimer THEN pending ELSE wait

\* window.clearTimeout(timeoutId); timeoutId = window.setTimeout(..., wait):
\* the ticks left on the one pending timeout after a call.
Rearmed(pending, wait) == wait

\* A call of the debounced process(), by kind: "init", "change", "api", "fix".
CallProcess(kind) ==
    /\ timer' = Rearmed(timer, DebounceInterval)
    /\ elapsed' = 0
    /\ armedBy' = kind
    /\ burst' = (kind = "change" /\ timer # NoTimer /\ armedBy = "change")

NoCallProcess == UNCHANGED <<timer, elapsed, armedBy, burst>>

\* The step ran op; it executed no action descriptor and invoked no host callback.
Did(op) ==
    /\ lastOp' = op
    /\ lastExec' = NoExec
    /\ invoked' = NoCallback
    /\ asked' = NoRange
    /\ thrown' = "none"

(***************************************************************************)
(* Init: the state getSpellchecker returns in.  Its last statement is      *)
(* process(), so the timer is armed and nothing is published yet.          *)
(***************************************************************************)
Init ==
    /\ checkAsync \in BOOLEAN
    /\ hasIgnore \in BOOLEAN
    /\ hasAddWord \in BOOLEAN
    /\ hasCheck \in BOOLEAN
    /\ hasSuggest \in BOOLEAN
    /\ doc \in Docs
    /\ dict = InitialDict
    /\ disposed = FALSE
    /\ disposables = Registrations(hasIgnore, hasAddWord)
    /\ timer = Rearmed(NoTimer, DebounceInterval)
    /\ sessions = <<>>
    /\ published = <<>>
    /\ otherMarkers = Scan(DocEssay, InitialDict)
    /\ query = NoQuery
    /\ result = Null
    /\ pendingFix = <<>>
    /\ publisher = 0
    /\ armedBy = "init"
    /\ burst = FALSE
    /\ elapsed = 0
    /\ edits = 0
    /\ events = <<>>
    /\ disposeCalls = 0
    /\ lastOp = "getSpellchecker"
    /\ lastExec = NoExec
    /\ invoked = NoCallback
    /\ asked = NoRange
    /\ lastEdit = NoEdit
    /\ thrown = "none"

(***************************************************************************)
(* Time.                                                                   *)
(***************************************************************************)
\* One tick passes while the timeout is pending; an expired timeout runs
\* before time moves on.
Tick ==
    /\ timer > 0
    /\ timer' = timer - 1
    /\ elapsed' = elapsed + 1
    /\ Did("tick")
    /\ UNCHANGED <<config, otherMarkers, doc, dict, disposed, disposables, sessions, published,
                   query, result, pendingFix, publisher, armedBy, burst, edits, lastEdit,
                   events, disposeCalls>>

(***************************************************************************)
(* The async callback of process.                                          *)
(***************************************************************************)
\* A variant without the disposed test.
ScanAlwaysAllowed(isDisposed) == TRUE

\* if (disposed) return
ScanAllowed(isDisposed) == ~isDisposed

\* An invocation that ran to its end: only its marks are kept.
Finished(marks, inBurst, by) ==
    [words |-> <<>>, li |-> -1, ti |-> 0, marks |-> marks, pc |-> "done",
     burst |-> inBurst, by |-> by]

\* An invocation ended by an exception: its marks are lost with it.
Failed(s) ==
    [words |-> <<>>, li |-> -1, ti |-> 0, marks |-> <<>>, pc |-> "failed",
     burst |-> s.burst, by |-> s.by]

\* The invocation as it stands at its first suspension (await on check), or
\* finished when check is synchronous or the text holds no token, or ended
\* by the TypeError of calling a check that is not a function.
Started(text, d, async, inBurst, by) ==
    LET words == Words(text)
        at == NextToken(words, 0, 1, 0)
    IN  IF at[1] >= 0 /\ ~hasCheck
        THEN Failed([burst |-> inBurst, by |-> by])
        ELSE IF async /\ at[1] >= 0
        THEN [words |-> words, li |-> at[1], ti |-> at[2], marks |-> <<>>,
              pc |-> "await", burst |-> inBurst, by |-> by]
        ELSE Finished(ScanFrom(words, at, <<>>, d), inBurst, by)

\* A variant that reads the text again after every await.
ResumedRereading(s, d) ==
    LET words == Words(doc)
        there == s.li + 1 <= Len(words) /\ s.ti <= Len(words[s.li + 1])
    IN  IF ~there THEN Finished(s.marks, s.burst, s.by)
        ELSE LET tok == words[s.li + 1][s.ti]
                 marks == Classified(words, s.li, s.ti, s.marks, check(tok.word, d))
                 at == NextToken(words, s.li, s.ti + 1, Len(marks))
             IN  IF at[1] < 0 THEN Finished(marks, s.burst, s.by)
                 ELSE [s EXCEPT !.words = words, !.marks = marks,
                                !.li = at[1], !.ti = at[2]]

\* The invocation after the awaited check of its current token resolves.
Resumed(s, d) ==
    LET tok == s.words[s.li + 1][s.ti]
        marks == Classified(s.words, s.li, s.ti, s.marks, check(tok.word, d))
        at == NextToken(s.words, s.li, s.ti + 1, Len(marks))
    IN  IF at[1] < 0 THEN Finished(marks, s.burst, s.by)
        ELSE [s EXCEPT !.marks = marks, !.li = at[1], !.ti = at[2]]

\* A variant that hands the marks to the editor after every push.
MarkersAfterEveryPush(s, current) == s.marks

\* The markers of the owner after the invocation s ran up to its next
\* suspension: marks is local to the invocation until
\* monaco.editor.setModelMarkers(model, owner, marks) at its end.
MarkersAfter(s, current) == IF s.pc = "done" THEN s.marks ELSE current

\* The history of finished invocations, after invocation i became s: the marks
\* of a finished invocation are kept only while they are the published ones.
Recorded(all, i, s) ==
    [j \in 1..Len(all) |->
        IF j = i THEN s
        ELSE IF s.pc = "done" /\ all[j].pc = "done" THEN Finished(<<>>, all[j].burst, all[j].by)
        ELSE all[j]]

\* The timeout expires and runs the callback.
TimerFire ==
    /\ timer = 0
    /\ timer' = NoTimer
    /\ armedBy' = "none"
    /\ burst' = FALSE
    /\ lastOp' = "timeout"
    /\ lastExec' = NoExec
    /\ invoked' = NoCallback
    /\ asked' = NoRange
    /\ IF ScanAllowed(disposed)
       THEN /\ Len(sessions) < MaxScans
            /\ LET s == Started(doc, dict, checkAsync, burst, armedBy)
                   i == Len(sessions) + 1
               IN  /\ sessions' = Recorded(Append(sessions, s), i, s)
                   /\ published' = MarkersAfter(s, published)
                   /\ publisher' = IF s.pc = "done" THEN i ELSE publisher
                   /\ thrown' = IF s.pc = "failed" THEN "check" ELSE "none"
       ELSE /\ thrown' = "none"
            /\ UNCHANGED <<sessions, published, publisher>>
    /\ UNCHANGED <<config, otherMarkers, doc, dict, disposed, disposables, query, result,
                   pendingFix, elapsed, edits, lastEdit, events, disposeCalls>>

\* The check awaited by session i resolves and the loop runs on.
Resume(i) ==
    /\ sessions[i].pc = "await"
    /\ LET s == Resumed(sessions[i], dict)
       IN  /\ sessions' = Recorded(sessions, i, s)
           /\ published' = MarkersAfter(s, published)
           /\ publisher' = IF s.pc = "done" THEN i ELSE publisher
    /\ Did("resume")
    /\ UNCHANGED <<config, otherMarkers, doc, dict, disposed, disposables, timer, query, result,
                   pendingFix, armedBy, burst, elapsed, edits, lastEdit, events, disposeCalls>>

\* The check awaited by session i rejects: await result throws out of the loop
\* and out of the callback, whose promise nobody handles.
CheckReject(i) ==
    /\ sessions[i].pc = "await"
    /\ LET s == Failed(sessions[i])
       IN  /\ sessions' = Recorded(sessions, i, s)
           /\ published' = MarkersAfter(s, published)
           /\ publisher' = IF s.pc = "done" THEN i ELSE publisher
    /\ lastOp' = "checkRejected"
    /\ lastExec' = NoExec
    /\ invoked' = NoCallback
    /\ asked' = NoRange
    /\ thrown' = "check"
    /\ UNCHANGED <<config, otherMarkers, doc, dict, disposed, disposables, timer, query, result,
                   pendingFix, armedBy, burst, elapsed, edits, lastEdit, events,
                   disposeCalls>>

(***************************************************************************)
(* The host's document and the exposed operations.                         *)
(***************************************************************************)
\* A call by the host or the user.
Event(call) == Len(events) < MaxEvents /\ events' = Append(events, call)

\* editor.onDidChangeModelContent(() => { process() }), while subscribed.
ContentChanged ==
    IF "onDidChangeModelContent" \in disposables
    THEN CallProcess("change")
    ELSE NoCallProcess

\* The user edits the document.
Change(text) ==
    /\ Event("change")
    /\ text # doc
    /\ doc' = text
    /\ lastEdit' = NoEdit
    /\ ContentChanged
    /\ Did("change")
    /\ UNCHANGED <<config, otherMarkers, dict, disposed, disposables, sessions, published, query,
                   result, pendingFix, publisher, edits, disposeCalls>>

\* The host calls the returned process().
Process ==
    /\ Event("process")
    /\ CallProcess("api")
    /\ Did("process")
    /\ UNCHANGED <<config, otherMarkers, doc, dict, disposed, disposables, sessions, published,
                   query, result, pendingFix, publisher, edits, lastEdit, disposeCalls>>

\* A variant that returns early once disposed.
RemovedOnFirstCall(markers) == IF disposed THEN markers ELSE <<>>

\* monaco.editor.removeAllMarkers(owner): the markers of the owner, on
\* whichever model they are.
Removed(markers) == <<>>

\* disposables.forEach(disposable => disposable.dispose()); disposables.length = 0
Released(held) == {}

\* The host calls the returned dispose().
Dispose ==
    /\ Event("dispose")
    /\ published' = Removed(published)
    /\ otherMarkers' = Removed(otherMarkers)
    /\ publisher' = 0
    /\ disposables' = Released(disposables)
    /\ disposed' = TRUE
    /\ disposeCalls' = disposeCalls + 1
    /\ Did("dispose")
    /\ UNCHANGED <<config, doc, dict, timer, sessions, query, result, pendingFix,
                   armedBy, burst, elapsed, edits, lastEdit>>

(***************************************************************************)
(* codeActionProvider.provideCodeActions                                   *)
(***************************************************************************)
\* Range.containsRange(a, b) of the editor: a contains b.
ContainsRange(a, b) ==
    /\ ~(b.startLineNumber < a.startLineNumber \/ b.endLineNumber < a.startLineNumber)
    /\ ~(b.startLineNumber > a.endLineNumber \/ b.endLineNumber > a.endLineNumber)
    /\ ~(b.startLineNumber = a.startLineNumber /\ b.startColumn < a.startColumn)
    /\ ~(b.endLineNumber = a.endLineNumber /\ b.endColumn > a.endColumn)

\* A variant that looks at the first marker only.
FindMarkerFirstOnly(markers, range, i) ==
    IF Len(markers) >= 1 /\ ContainsRange(markers[1], range) THEN markers[1]
    ELSE NoMarker

\* markers.find(marker => range.containsRange.call(marker, range))
RECURSIVE FindMarker(_, _, _)
FindMarker(markers, range, i) ==
    IF i > Len(markers) THEN NoMarker
    ELSE IF ContainsRange(markers[i], range) THEN markers[i]
    ELSE FindMarker(markers, range, i + 1)

\* The ranges the host asks about.
Range(line, from, to) ==
    [startLineNumber |-> line, startColumn |-> from,
     endLineNumber |-> line, endColumn |-> to]

QueryRanges == {Range(1, 2, 2), Range(1, 9, 10), Range(2, 6, 6)}

\* The command id the pushed actions carry.
ReplaceCommand == correctActionId
IgnoreCommand == correctActionId
AddWordCommand == correctActionId

\* The replace actions of list.forEach, in the order of the list.
ReplaceActions(marker, list) ==
    [i \in 1..Len(list) |->
        [label |-> "apply-suggestion", text |-> list[i], command |-> ReplaceCommand,
         args |-> EditArgs(marker, list[i]), ranges |-> marker]]

\* A variant that offers ignore whether or not opts.ignore is set.
IgnoreActionsAlways(marker, ig) ==
    <<[label |-> "ignore", text |-> marker.code, command |-> correctActionId,
       args |-> WordArgs(marker.code), ranges |-> marker]>>

\* if (ignore) { actions.push(...) }
IgnoreActions(marker, ig) ==
    IF ig THEN <<[label |-> "ignore", text |-> marker.code, command |-> IgnoreCommand,
                  args |-> WordArgs(marker.code), ranges |-> marker]>>
    ELSE <<>>

\* if (addWord) { actions.push(...) }
AddWordActions(marker, aw) ==
    IF aw THEN <<[label |-> "add-word", text |-> marker.code, command |-> AddWordCommand,
                  args |-> WordArgs(marker.code), ranges |-> marker]>>
    ELSE <<>>

\* The actions pushed for a marker: one per suggestion, then ignore, then add-word.
BuildActions(marker, ig, aw) ==
    ReplaceActions(marker, suggest(marker.code))
        \o IgnoreActions(marker, ig) \o AddWordActions(marker, aw)

\* The host asks for the code actions at range; the call returns null at once
\* or suspends on await suggest(word), or is ended by the TypeError of calling
\* a suggest that is not a function.
Query(range) ==
    /\ Event("provideCodeActions")
    /\ ~query.active
    /\ LET marker == FindMarker(published, range, 1)
       IN  IF disposed \/ marker = NoMarker
           THEN /\ result' = Null
                /\ query' = NoQuery
                /\ thrown' = "none"
           ELSE IF ~hasSuggest
           THEN /\ result' = Null
                /\ query' = NoQuery
                /\ thrown' = "suggest"
           ELSE /\ query' = [active |-> TRUE, marker |-> marker, cancelled |-> FALSE]
                /\ thrown' = "none"
                /\ UNCHANGED result
    /\ lastOp' = "provideCodeActions"
    /\ lastExec' = NoExec
    /\ invoked' = NoCallback
    /\ asked' = range
    /\ UNCHANGED <<config, otherMarkers, doc, dict, disposed, disposables, timer, sessions,
                   published, pendingFix, publisher, armedBy, burst, elapsed, edits, lastEdit,
                   disposeCalls>>

\* The host raises token.isCancellationRequested on the suspended call.
CancelQuery ==
    /\ Event("cancel")
    /\ query.active
    /\ ~query.cancelled
    /\ query' = [query EXCEPT !.cancelled = TRUE]
    /\ Did("cancel")
    /\ UNCHANGED <<config, otherMarkers, doc, dict, disposed, disposables, timer, sessions,
                   published, result, pendingFix, publisher, armedBy, burst, elapsed,
                   edits, lastEdit, disposeCalls>>

\* A variant without the cancellation test.
CancellationIgnored(q) == FALSE

\* if (token.isCancellationRequested) return null
IsCancellationRequested(q) == q.cancelled

\* suggest resolves and provideCodeActions returns.
QueryResolve ==
    /\ query.active
    /\ result' = IF IsCancellationRequested(query) THEN Null
                 ELSE [ok |-> TRUE,
                       actions |-> BuildActions(query.marker, hasIgnore, hasAddWord)]
    /\ query' = NoQuery
    /\ Did("codeActions")
    /\ UNCHANGED <<config, otherMarkers, doc, dict, disposed, disposables, timer, sessions,
                   published, pendingFix, publisher, armedBy, burst, elapsed, edits, lastEdit,
                   events, disposeCalls>>

(***************************************************************************)
(* The editor actions.                                                     *)
(***************************************************************************)
Min(a, b) == IF a < b THEN a ELSE b
Max(a, b) == IF a > b THEN a ELSE b

\* The offset in the text of column col (1-based) of line lineNumber, as the
\* editor validates a position: a line before the first is the start of the
\* text, a line after the last is its end, a column is clamped to its line.
RECURSIVE LineStart(_, _)
LineStart(lines, n) ==
    IF n <= 1 THEN 0 ELSE LineStart(lines, n - 1) + Len(lines[n - 1]) + 1

OffsetAt(text, lineNumber, col) ==
    LET lines == SplitLines(text)
        n == Min(Max(lineNumber, 1), Len(lines))
        c == Min(Max(col, 1), Len(lines[n]) + 1)
    IN  IF lineNumber < 1 THEN 0
        ELSE IF lineNumber > Len(lines) THEN Len(text)
        ELSE LineStart(lines, n) + c - 1

\* A variant that inserts the suggestion and removes nothing.
ExecuteEditsInsertOnly(text, range, suggestion) ==
    LET from == OffsetAt(text, range.startLineNumber, range.startColumn)
    IN  SubSeq(text, 1, from) \o suggestion \o SubSeq(text, from + 1, Len(text))

\* editor.executeEdits(owner, [{ range, text: suggestion }])
ExecuteEdits(text, range, suggestion) ==
    LET from == OffsetAt(text, range.startLineNumber, range.startColumn)
        to == OffsetAt(text, range.endLineNumber, range.endColumn)
    IN  SubSeq(text, 1, from) \o suggestion \o SubSeq(text, Max(from, to) + 1, Len(text))

\* run of the correct action: if (!args || !args.range || !args.suggestion) return
CorrectApplies(args) ==
    args.isObject /\ args.range # NoMarker /\ args.suggestion # <<>>

\* run of the ignore and addWord actions: if (word) { await cb(word); process() }
FixApplies(args) == args.isObject \/ args.word # <<>>

\* The callback of the action registered under id.
CallbackOf(id) == IF id = ignoreActionId THEN "ignore" ELSE "addWord"

\* The editor runs the action registered under id with args; an id that is
\* not registered runs nothing.
RunAction(id, args) ==
    IF id \in disposables /\ id = correctActionId /\ CorrectApplies(args)
    THEN /\ edits < MaxEdits
         /\ edits' = edits + 1
         /\ doc' = ExecuteEdits(doc, args.range, args.suggestion)
         /\ lastEdit' = [done |-> TRUE, range |-> args.range, text |-> args.suggestion,
                         scans |-> Len(sessions)]
         /\ ContentChanged
         /\ invoked' = NoCallback
         /\ UNCHANGED pendingFix
    ELSE IF id \in disposables /\ id \in {ignoreActionId, addWordActionId}
            /\ FixApplies(args)
    THEN /\ Len(pendingFix) < MaxPendingFixes
         /\ pendingFix' = Append(pendingFix, [cb |-> CallbackOf(id), word |-> args.word])
         /\ invoked' = [cb |-> CallbackOf(id), word |-> args.word]
         /\ NoCallProcess
         /\ UNCHANGED <<doc, edits, lastEdit>>
    ELSE /\ NoCallProcess
         /\ invoked' = NoCallback
         /\ UNCHANGED <<doc, edits, lastEdit, pendingFix>>

\* The user picks action i of the list provideCodeActions returned: the editor
\* executes its command with its arguments.
Exec(i) ==
    /\ Event("executeCommand")
    /\ result.ok
    /\ lastExec' = result.actions[i]
    /\ lastOp' = "executeCommand"
    /\ asked' = NoRange
    /\ thrown' = "none"
    /\ RunAction(result.actions[i].command, result.actions[i].args)
    /\ UNCHANGED <<config, otherMarkers, dict, disposed, disposables, sessions, published, query,
                   result, publisher, disposeCalls>>

\* The user runs the registered ignore or addWord action on a word.
TriggerFix(id, word) ==
    /\ Event("runAction")
    /\ id \in disposables
    /\ RunAction(id, WordArgs(word))
    /\ lastExec' = NoExec
    /\ lastOp' = "runAction"
    /\ asked' = NoRange
    /\ thrown' = "none"
    /\ UNCHANGED <<config, otherMarkers, dict, disposed, disposables, sessions, published, query,
                   result, publisher, disposeCalls>>

\* A variant that never calls process() after the callback.
ProceedsNever(fulfilled) == FALSE

\* A variant that calls process() however the callback settled.
ProceedsAlways(fulfilled) == TRUE

\* await cb(word); process() : the statement after the await runs only if the
\* awaited promise was fulfilled.
Proceeds(fulfilled) == fulfilled

\* The awaited ignore / addWord callback i settles, the host dictionary now
\* accepting the word, and the action goes on to process().
FixSettle(i) ==
    /\ dict' = dict \cup {pendingFix[i].word}
    /\ pendingFix' = SubSeq(pendingFix, 1, i - 1) \o SubSeq(pendingFix, i + 1, Len(pendingFix))
    /\ IF Proceeds(TRUE) THEN CallProcess("fix") ELSE NoCallProcess
    /\ Did("fixSettled")
    /\ UNCHANGED <<config, otherMarkers, doc, disposed, disposables, sessions, published, query,
                   result, publisher, edits, lastEdit, events, disposeCalls>>

\* The awaited ignore / addWord callback i fails: the await throws, the rest
\* of run is skipped and the promise run returned is rejected.
FixReject(i) ==
    /\ pendingFix' = SubSeq(pendingFix, 1, i - 1) \o SubSeq(pendingFix, i + 1, Len(pendingFix))
    /\ IF Proceeds(FALSE) THEN CallProcess("fix") ELSE NoCallProcess
    /\ lastOp' = "fixRejected"
    /\ lastExec' = NoExec
    /\ invoked' = NoCallback
    /\ asked' = NoRange
    /\ thrown' = pendingFix[i].cb
    /\ UNCHANGED <<config, otherMarkers, doc, dict, disposed, disposables, sessions, published,
                   query, result, publisher, edits, lastEdit, events, disposeCalls>>

(***************************************************************************)
(* The specification.                                                      *)
(***************************************************************************)
Next ==
    \/ Tick
    \/ TimerFire
    \/ \E i \in 1..Len(sessions) : Resume(i)
    \/ \E i \in 1..Len(sessions) : CheckReject(i)
    \/ \E text \in Docs : Change(text)
    \/ Process
    \/ Dispose
    \/ \E range \in QueryRanges : Query(range)
    \/ CancelQuery
    \/ QueryResolve
    \/ \E i \in 1..Len(result.actions) : Exec(i)
    \/ \E id \in {ignoreActionId, addWordActionId}, word \in FixWords : TriggerFix(id, word)
    \/ \E i \in 1..Len(pendingFix) : FixSettle(i)
    \/ \E i \in 1..Len(pendingFix) : FixReject(i)

Spec == Init /\ [][Next]_vars

(***************************************************************************)
(* The default tokenizer on its own: an instance with an asynchronous      *)
(* check on a one-line text, scanned by the initial call of process() and  *)
(* again on calls of the returned process().                               *)
(***************************************************************************)
\* The characters of the lines: a letter, the apostrophe, a digit (a word
\* character outside the class of the pattern) and the space.
LineChars == {"z", "'", "1", " "}

\* The lines of up to MaxLineLen characters.
TokenizerLines == UNION {[1..n -> LineChars] : n \in 0..MaxLineLen}

InitTokenize ==
    /\ checkAsync = TRUE
    /\ hasIgnore = FALSE
    /\ hasAddWord = FALSE
    /\ hasCheck = TRUE
    /\ hasSuggest = TRUE
    /\ doc \in TokenizerLines
    /\ dict = InitialDict
    /\ disposed = FALSE
    /\ disposables = Registrations(hasIgnore, hasAddWord)
    /\ timer = Rearmed(NoTimer, DebounceInterval)
    /\ sessions = <<>>
    /\ published = <<>>
    /\ otherMarkers = Scan(DocEssay, InitialDict)
    /\ query = NoQuery
    /\ result = Null
    /\ pendingFix = <<>>
    /\ publisher = 0
    /\ armedBy = "init"
    /\ burst = FALSE
    /\ elapsed = 0
    /\ edits = 0
    /\ events = <<>>
    /\ disposeCalls = 0
    /\ lastOp = "getSpellchecker"
    /\ lastExec = NoExec
    /\ invoked = NoCallback
    /\ asked = NoRange
    /\ lastEdit = NoEdit
    /\ thrown = "none"

NextTokenize ==
    \/ Tick
    \/ TimerFire
    \/ \E i \in 1..Len(sessions) : Resume(i)
    \/ Process

SpecTokenize == InitTokenize /\ [][NextTokenize]_vars

(***************************************************************************)
(* Properties of the scan sessions.                                        *)
(***************************************************************************)
InFlight(i) == sessions[i].pc = "await"

\* No timer pending, no session in flight, no callback or query unsettled.
Quiescent ==
    /\ timer = NoTimer
    /\ \A i \in 1..Len(sessions) : ~InFlight(i)
    /\ pendingFix = <<>>
    /\ ~query.active

\* C1: stale-session suppression.  A session publishes only if no session was
\* started after it: whenever the published set is written by a session, that
\* session is the most recently started one.
C1_OnlyNewestSessionPublishes ==
    [][(publisher' # publisher /\ publisher' # 0) => publisher' = Len(sessions')]_vars

\* C2: two change notifications less than the debounce interval apart and no
\* later one: once everything has settled, no check having failed, the
\* published set is the scan of the text as the second notification left it.
C2_FinalSetIsScanOfLastBurst ==
    (/\ Quiescent
     /\ ~disposed
     /\ Len(sessions) > 0
     /\ sessions[Len(sessions)].burst
     /\ \A i \in 1..Len(sessions) : sessions[i].pc # "failed")
        => published = Scan(doc, dict)

\* C3: no published set has more entries than the marker limit.
C3_PublishedWithinLimit == Len(published) <= MarkerLimit

\* C4: atomic full-set publication.  The published set is empty or is the
\* complete result of one finished session; what a session in flight has
\* accumulated so far is not what is published.
C4_PublishedIsOneFinishedResult ==
    \/ published = <<>>
    \/ /\ publisher \in 1..Len(sessions)
       /\ sessions[publisher].pc = "done"
       /\ published = sessions[publisher].marks

\* C4 witness: a session in flight has accumulated marks while the set of a
\* finished session, a different one, is published.
C4_Witness ==
    /\ published # <<>>
    /\ \E i \in 1..Len(sessions) :
          /\ InFlight(i)
          /\ sessions[i].marks # <<>>
          /\ sessions[i].marks # published

(***************************************************************************)
(* Properties of the lifecycle and of the debounce.                        *)
(***************************************************************************)
\* C5: once disposed, no scan starts, an expiring timeout publishes nothing
\* and changes no session, and a quick-fix query returns null without
\* suspending on suggest.
C5_NoScanAfterDispose ==
    [][disposed =>
         /\ Len(sessions') = Len(sessions)
         /\ (lastOp' = "timeout" => published' = published /\ sessions' = sessions)
         /\ (events' # events /\ lastOp' = "provideCodeActions"
                => result' = Null /\ ~query'.active)]_vars

\* C5 witness: dispose(), then process(), and its timeout has expired.
C5_Witness ==
    /\ events = <<"dispose", "process">>
    /\ lastOp = "timeout"
    /\ published = <<>>

\* C6: dispose() is idempotent and disposed is terminal.  A call of dispose()
\* on a disposed instance leaves no markers, no registration and the flag set,
\* as the first call did, and touches nothing else.
C6_DisposeIdempotent ==
    [][/\ disposed => disposed'
       /\ (disposed /\ events' # events /\ lastOp' = "dispose")
             => /\ published' = <<>>
                /\ disposables' = {}
                /\ disposables' = disposables
                /\ UNCHANGED <<sessions, timer, query, result, pendingFix, doc, dict>>]_vars

\* C6 witness: dispose() was called twice.
C6_Witness == disposeCalls = 2 /\ lastOp = "dispose"

\* The session started last read the current text: it iterates over the
\* tokens of doc, or, already finished, holds the scan of doc; a session that
\* an exception ended holds nothing.
ReadsCurrentText(s) ==
    IF s.pc = "await" THEN s.words = Words(doc)
    ELSE IF s.pc = "done" THEN s.marks = Scan(doc, dict)
    ELSE s.marks = <<>>

\* C7: trailing-edge debounce.  A scan starts only when a full debounce
\* interval has passed since the last call of process(), one scan per expiry,
\* on the text as it is then; every change notification of an active instance
\* restarts the full interval.
C7_TrailingEdgeDebounce ==
    [][/\ Len(sessions') # Len(sessions)
             => /\ elapsed = DebounceInterval
                /\ Len(sessions') = Len(sessions) + 1
                /\ ReadsCurrentText(sessions'[Len(sessions')])
       /\ (~disposed /\ events' # events /\ lastOp' = "change")
             => timer' = DebounceInterval
       /\ (~disposed /\ timer = 0 /\ lastOp' = "timeout")
             => Len(sessions') = Len(sessions) + 1]_vars

\* C7 witness: two changes within one interval, before any scan, started one scan.
C7_Witness ==
    /\ events = <<"change", "change">>
    /\ Len(sessions) = 1
    /\ sessions[1].burst

CallbackFor(label) == IF label = "ignore" THEN "ignore" ELSE "addWord"

\* C9: executing an ignore (add-word) action descriptor invokes the host's
\* ignore (addWord) callback with the marker's word.
C9_FixDescriptorInvokesItsCallback ==
    (/\ ~disposed
     /\ lastOp = "executeCommand"
     /\ lastExec.label \in {"ignore", "add-word"})
        => invoked = [cb |-> CallbackFor(lastExec.label), word |-> lastExec.text]

\* The list has one replace action per suggestion, in suggest's order, then
\* one ignore action iff ig, then one add-word action iff aw, all on marker m.
WellFormedActions(acts, m, ig, aw) ==
    LET list == suggest(m.code)
        n == Len(list)
        k == n + (IF ig THEN 1 ELSE 0)
    IN  /\ Len(acts) = k + (IF aw THEN 1 ELSE 0)
        /\ \A i \in 1..n : acts[i].label = "apply-suggestion" /\ acts[i].text = list[i]
        /\ ig => (acts[k].label = "ignore" /\ acts[k].text = m.code)
        /\ aw => (acts[k + 1].label = "add-word" /\ acts[k + 1].text = m.code)
        /\ \A i \in 1..Len(acts) : acts[i].ranges = m

\* C10: the list provideCodeActions returns for a matched marker is the
\* replace actions in suggestion order, then ignore iff opts.ignore, then
\* add-word iff opts.addWord, and nothing else.
C10_ActionsInOrder ==
    [][(query.active /\ ~query'.active /\ result'.ok)
          => WellFormedActions(result'.actions, query.marker, hasIgnore, hasAddWord)]_vars

\* C10 witness: neither callback configured, suggest("Ths") = ["This", "The"]:
\* exactly the two replace actions, This then The.
C10_Witness ==
    /\ ~hasIgnore /\ ~hasAddWord
    /\ lastOp = "codeActions"
    /\ result.ok
    /\ Len(result.actions) = 2
    /\ result.actions[1].label = "apply-suggestion" /\ result.actions[1].text = This
    /\ result.actions[2].label = "apply-suggestion" /\ result.actions[2].text = The

(***************************************************************************)
(* Properties of the lookup and of the correct action.                     *)
(***************************************************************************)
\* The indexes of the published markers whose span contains range.
Containing(range) ==
    {i \in 1..Len(published) : ContainsRange(published[i], range)}

\* C11: a provideCodeActions call on an active instance that has a suggest
\* callback returns null when no published marker contains the range asked
\* about; otherwise it goes on with exactly one marker, the first in published
\* order that contains the range.
C11_QueryTargetsFirstMatch ==
    [][(lastOp' = "provideCodeActions" /\ ~disposed /\ hasSuggest)
          => LET hit == Containing(asked')
             IN  IF hit = {}
                 THEN ~query'.active /\ result' = Null
                 ELSE /\ query'.active
                      /\ \E i \in hit :
                            /\ \A j \in hit : i <= j
                            /\ query'.marker = published[i]]_vars

\* C11 witness: the call targets the second published marker, the first one
\* not containing the range.
C11_Witness ==
    /\ lastOp = "provideCodeActions"
    /\ query.active
    /\ Len(published) >= 2
    /\ ~ContainsRange(published[1], asked)
    /\ query.marker = published[2]

\* The number of characters of text before line lineNumber, column col: the
\* offsets k with lineNumber - 1 line breaks before them and col - 1 characters
\* since the last of these.
OffsetsOf(text, lineNumber, col) ==
    {k \in 0..Len(text) :
        LET breaks == {b \in 1..k : text[b] = NL}
            last == IF breaks = {} THEN 0
                    ELSE CHOOSE b \in breaks : \A c \in breaks : c <= b
        IN  /\ Cardinality(breaks) = lineNumber - 1
            /\ k - last = col - 1
            /\ \A b \in (last + 1)..k : text[b] # NL}

\* after is before with the characters of the span m replaced by text s and
\* every character outside the span unchanged.
SpanReplaced(before, after, m, s) ==
    \E from \in OffsetsOf(before, m.startLineNumber, m.startColumn),
       to \in OffsetsOf(before, m.endLineNumber, m.endColumn) :
        /\ from <= to
        /\ after = SubSeq(before, 1, from) \o s \o SubSeq(before, to + 1, Len(before))

\* The span m lies in the text.
SpanInText(text, m) ==
    /\ OffsetsOf(text, m.startLineNumber, m.startColumn) # {}
    /\ OffsetsOf(text, m.endLineNumber, m.endColumn) # {}

\* C12: executing a replace action offered by provideCodeActions on an active
\* instance, the marker's span lying in the text, makes exactly one edit,
\* which replaces the characters of the span by the suggestion and leaves
\* every other character as it was; the step starts no scan and leaves the
\* published markers alone.
C12_ReplaceEditsOnlyTheSpan ==
    [][(lastOp' = "executeCommand" /\ lastExec'.label = "apply-suggestion"
            /\ ~disposed /\ SpanInText(doc, lastExec'.ranges))
          => /\ edits' = edits + 1
             /\ SpanReplaced(doc, doc', lastExec'.ranges, lastExec'.text)
             /\ sessions' = sessions
             /\ published' = published
             /\ publisher' = publisher]_vars

\* C12 witness: "Ths is fien." became "This is fien." by the first replace
\* action offered for Ths, the markers of both words still published.
C12_Witness ==
    /\ lastOp = "executeCommand"
    /\ lastExec.label = "apply-suggestion"
    /\ lastExec.text = This
    /\ edits = 1
    /\ doc = This \o SubSeq(DocEssay, 4, Len(DocEssay))
    /\ Len(published) = 2

\* The marker m overlaps the columns from .. to - 1 of line.
Overlaps(m, line, from, to) ==
    m.startLineNumber = line /\ m.startColumn < to /\ m.endColumn > from

\* The text the edit e put in stands in text as one word, where e put it.
StandsAsWord(text, e) ==
    LET lines == SplitLines(text)
        line == e.range.startLineNumber
    IN  /\ line \in 1..Len(lines)
        /\ \E tok \in {defaultTokenize(lines[line])[k] :
                           k \in 1..Len(defaultTokenize(lines[line]))} :
              tok.pos = e.range.startColumn - 1 /\ tok.word = e.text

\* Session i publishes in this step.
Publishes(i) ==
    /\ i \in 1..Len(sessions')
    /\ sessions'[i].pc = "done"
    /\ i > Len(sessions) \/ sessions[i].pc = "await"

\* C13: round trip of replace.  When the first scan started after a replace
\* action put the suggestion S in place of the span R publishes, the user not
\* having edited since, and check accepts S, no published marker overlaps the
\* text that replaced R.
C13_ReplacedTextNotFlagged ==
    [][(/\ lastEdit.done
        /\ lastEdit'.done
        /\ Publishes(lastEdit.scans + 1)
        /\ check(lastEdit.text, dict)
        /\ StandsAsWord(doc, lastEdit))
          => \A k \in 1..Len(published') :
                ~Overlaps(published'[k], lastEdit.range.startLineNumber,
                          lastEdit.range.startColumn,
                          lastEdit.range.startColumn + Len(lastEdit.text))]_vars

\* C13 witness: "Ths is fien." was made "This is fien." by a replace action
\* and the scan started after it has published fien alone, at columns 9..13.
C13_Witness ==
    /\ lastEdit.done
    /\ lastEdit.text = This
    /\ publisher = lastEdit.scans + 1
    /\ doc = This \o SubSeq(DocEssay, 4, Len(DocEssay))
    /\ published = <<Mark(fien, 8, 0)>>

(***************************************************************************)
(* Properties of the ignore and addWord actions.                           *)
(***************************************************************************)
\* C14: when the ignore or addWord callback fails, the action requests no
\* scan (the debounce timer is left as it was), the published markers and the
\* sessions are left as they were, and the failure reaches the caller of the
\* action as the rejection of the promise run returned.
C14_FailedCallbackRequestsNoScan ==
    [][lastOp' = "fixRejected"
          => /\ timer' = timer
             /\ armedBy' = armedBy
             /\ sessions' = sessions
             /\ published' = published
             /\ thrown' \in {"ignore", "addWord"}]_vars

\* C14 witness: the ignore callback failed on an instance with published
\* markers and no timer pending, and none is pending afterwards.
C14_Witness ==
    /\ lastOp = "fixRejected"
    /\ thrown = "ignore"
    /\ ~disposed
    /\ timer = NoTimer
    /\ published # <<>>

\* C15: when the ignore or addWord callback has completed, the action requests
\* a scan though the text did not change; the scan so requested starts only
\* after the callback completed, so it flags no word the callbacks have made
\* the dictionary accept.
C15_RescanAfterCallbackSeesItsDictionary ==
    [][/\ lastOp' = "fixSettled"
          => (timer' = DebounceInterval /\ armedBy' = "fix" /\ doc' = doc
                /\ sessions' = sessions)
       /\ \A i \in 1..Len(sessions') :
            sessions'[i].by = "fix"
               => /\ dict' # InitialDict
                  /\ \A k \in 1..Len(sessions'[i].marks) :
                        ~check(sessions'[i].marks[k].code, dict' \ InitialDict)]_vars

\* C15 witness: "Ths is fien." unchanged, ignore("Ths") completed, and the
\* scan the action requested has published fien alone.
C15_Witness ==
    /\ doc = DocEssay
    /\ check(Ths, dict)
    /\ publisher \in 1..Len(sessions)
    /\ sessions[publisher].by = "fix"
    /\ published = <<Mark(fien, 7, 0)>>

(***************************************************************************)
(* Properties of the scan.                                                 *)
(***************************************************************************)
\* C16: when the check awaited by a session rejects, the token gets no marker
\* and the session goes on with the next token, or, the token being the last,
\* publishes the marks it has: a rejected check does not end the scan.
C16_RejectedCheckIsSkipped ==
    [][\A i \in 1..Len(sessions) :
          (lastOp' = "checkRejected" /\ sessions'[i] # sessions[i]
              /\ sessions[i].pc = "await")
             => LET s == sessions[i]
                    at == NextToken(s.words, s.li, s.ti + 1, Len(s.marks))
                IN  IF at[1] < 0
                    THEN sessions'[i].pc = "done" /\ published' = s.marks
                    ELSE /\ sessions'[i].pc = "await"
                         /\ sessions'[i].marks = s.marks
                         /\ <<sessions'[i].li, sessions'[i].ti>> = at]_vars

(***************************************************************************)
(* Properties of the construction.                                         *)
(***************************************************************************)
\* C17: without a check or without a suggest callback getSpellchecker fails:
\* there is no instance, so nothing is registered, no timer is armed and no
\* scan ever runs.
C17_NoInstanceWithoutCallbacks ==
    (~hasCheck \/ ~hasSuggest)
        => /\ disposables = {}
           /\ timer = NoTimer
           /\ sessions = <<>>

(***************************************************************************)
(* Properties of the published set.                                        *)
(***************************************************************************)
\* The marker a starts before the marker b, by line and then by column.
Before(a, b) ==
    \/ a.startLineNumber < b.startLineNumber
    \/ a.startLineNumber = b.startLineNumber /\ a.startColumn < b.startColumn

\* C18: the published markers are in ascending order of (line, column),
\* whichever way the awaited checks of the sessions resolved.
C18_PublishedInDocumentOrder ==
    \A k \in 1..(Len(published) - 1) : Before(published[k], published[k + 1])

\* C18 witness: check being asynchronous, a session has published markers on
\* two lines, two on each, while another session is in flight.
C18_Witness ==
    /\ checkAsync
    /\ Len(published) = 4
    /\ published[2].startLineNumber = 1
    /\ published[3].startLineNumber = 2
    /\ \E i \in 1..Len(sessions) : InFlight(i)

\* The tokens of words that check rejects under the dictionary d, as pairs of
\* line (1-based) and index in the line.
Rejected(words, d) ==
    {at \in UNION {{<<l, t>> : t \in 1..Len(words[l])} : l \in 1..Len(words)} :
        ~check(words[at[1]][at[2]].word, d)}

\* The marker m is the one of token at of words: on the token's line, from the
\* column after pos, as long as the word.
MarkerOf(m, words, at) ==
    LET tok == words[at[1]][at[2]]
    IN  /\ m.code = tok.word
        /\ m.startLineNumber = at[1]
        /\ m.endLineNumber = at[1]
        /\ m.startColumn = tok.pos + 1
        /\ m.endColumn - m.startColumn = Len(tok.word)

\* markers holds exactly one marker for every rejected token of words and
\* nothing else.
ExactlyFlagged(markers, words, d) ==
    /\ Len(markers) = Cardinality(Rejected(words, d))
    /\ \A at \in Rejected(words, d) :
          \E k \in 1..Len(markers) : MarkerOf(markers[k], words, at)
    /\ \A k \in 1..Len(markers) :
          \E at \in Rejected(words, d) : MarkerOf(markers[k], words, at)

\* The tokens session i iterates over in this step.
WordsOf(i) == IF i > Len(sessions) THEN Words(doc) ELSE sessions[i].words

\* C19: when a session publishes whose text holds no more rejected tokens than
\* the marker limit, the dictionary not having changed while it ran, the
\* published set holds exactly one marker for each token check rejects and
\* none for a token check accepts, each on the line of its token with
\* startColumn = pos + 1 and endColumn - startColumn = length(word).
C19_OneMarkerPerRejectedToken ==
    [][\A i \in 1..Len(sessions') :
          (/\ Publishes(i)
           /\ ~checkAsync \/ dict = InitialDict
           /\ Cardinality(Rejected(WordsOf(i), dict)) <= MarkerLimit)
             => ExactlyFlagged(published', WordsOf(i), dict)]_vars

\* C19 witness: the scan of "Ths is fien." has published Ths at columns 1..4
\* and fien at columns 8..12 of line 1.
C19_Witness ==
    /\ doc = DocEssay
    /\ lastOp \in {"timeout", "resume"}
    /\ published =
          <<[code |-> Ths, startLineNumber |-> 1, startColumn |-> 1,
             endLineNumber |-> 1, endColumn |-> 4],
            [code |-> fien, startLineNumber |-> 1, startColumn |-> 8,
             endLineNumber |-> 1, endColumn |-> 12]>>

\* C20: in a quiescent state of an active instance (no timer pending, no
\* session in flight, no callback or query unsettled), check being a function
\* and no check having failed, the published markers are the scan of the
\* current text under the current dictionary.
C20_QuiescentSetMatchesText ==
    (/\ Quiescent
     /\ ~disposed
     /\ hasCheck
     /\ \A i \in 1..Len(sessions) : sessions[i].pc # "failed")
        => published = Scan(doc, dict)

(***************************************************************************)
(* Properties of sessions and queries that overlap other operations.       *)
(***************************************************************************)
\* C21: after dispose() nothing is published: a session that was in flight
\* when dispose() was called does not publish when its checks resolve.
C21_NothingPublishedOnceDisposed ==
    disposed => published = <<>>

\* C22: when provideCodeActions returns a list of actions on an active
\* instance, the marker every action carries is one of the markers published
\* at that moment, whatever was published while the call awaited suggest.
C22_ActionsTargetPublishedMarkers ==
    (/\ lastOp = "codeActions"
     /\ ~disposed
     /\ result.ok
     /\ result.actions # <<>>)
        => \A i \in 1..Len(result.actions) :
              \E k \in 1..Len(published) : published[k] = result.actions[i].ranges

(***************************************************************************)
(* Properties of two instances.                                            *)
(***************************************************************************)
\* C23: with a second instance attached to a second editor, no step of this
\* instance, neither a publication nor dispose(), changes the markers the
\* second instance has published on its own model.
C23_OtherInstanceUntouched ==
    [][otherMarkers' = otherMarkers]_vars

(***************************************************************************)
(* Properties of one pass.                                                 *)
(***************************************************************************)
\* C24: early stop at the marker limit.  A session that has accumulated as many
\* marks as the limit asks check about no further token: a session suspended
\* on a check holds fewer marks than the limit.
C24_NoCheckOnceLimitReached ==
    \A i \in 1..Len(sessions) :
        InFlight(i) => Len(sessions[i].marks) < MarkerLimit

(***************************************************************************)
(* Properties of the host callbacks in progress.                           *)
(***************************************************************************)
\* C25: at most one ignore / addWord callback of the instance is in progress
\* at a time: a callback is invoked only when none is unsettled.
C25_OneFixCallbackAtATime ==
    Len(pendingFix) <= 1

\* C26: a session reads the text once, when it starts.  The tokens it iterates
\* over are those of the text at its start and stay the same while it is
\* suspended, whatever edits are made; what it publishes, the dictionary not
\* having changed, is the scan of those tokens.
C26_SessionScansItsSnapshot ==
    [][/\ (Len(sessions') > Len(sessions) /\ InFlight(Len(sessions))')
          => sessions'[Len(sessions')].words = Words(doc)
       /\ \A i \in 1..Len(sessions) :
            /\ (InFlight(i) /\ InFlight(i)') => sessions'[i].words = sessions[i].words
            /\ (InFlight(i) /\ Publishes(i) /\ dict = InitialDict)
                  => LET words == sessions[i].words
                     IN  published' =
                            ScanFrom(words, NextToken(words, 0, 1, 0), <<>>, dict)]_vars

\* C26 witness: the only session started on "Ths is fien.", the text was
\* replaced while it was suspended, and it has published Ths and fien.
C26_Witness ==
    /\ Len(sessions) = 1
    /\ publisher = 1
    /\ lastOp = "resume"
    /\ doc # DocEssay
    /\ published = <<Mark(Ths, 0, 0), Mark(fien, 7, 0)>>

(***************************************************************************)
(* Properties of the cancellation of a query.                              *)
(***************************************************************************)
\* C27: a provideCodeActions call whose cancellation was requested before
\* suggest resolved returns null, not a list of actions.
C27_CancelledQueryReturnsNull ==
    [][(query.active /\ query.cancelled /\ ~query'.active) => result' = Null]_vars

\* C27 witness: the host asked for the actions at a published marker,
\* cancelled, and the call has returned null after suggest resolved.
C27_Witness ==
    /\ events = <<"provideCodeActions", "cancel">>
    /\ lastOp = "codeActions"
    /\ published # <<>>
    /\ result = Null

(***************************************************************************)
(* Properties of the default tokenizer.                                    *)
(***************************************************************************)
\* The tokens a session started on a one-line text iterates over: those of
\* its line while it is suspended; none when it was over at its start.
TokensSeen(s) == IF s.pc = "await" THEN s.words[1] ELSE <<>>

\* A session whose tokens can be seen: suspended, or over at its start.
TokensVisible(i) ==
    \/ sessions[i].pc = "await"
    \/ i = Len(sessions) /\ lastOp = "timeout" /\ sessions[i].pc = "done"

\* The k characters from the 1-based index i of line are letters or apostrophes.
InClass(line, i, k) ==
    /\ k >= 1
    /\ i + k - 1 <= Len(line)
    /\ \A j \in i..(i + k - 1) : line[j] \in Letters \cup {"'"}

\* The maximal runs of letters and apostrophes of at least 2 characters, as
\* pairs of 1-based start and length.
MaximalRuns(line) ==
    {r \in (1..Len(line)) \X (2..Len(line)) :
        /\ InClass(line, r[1], r[2])
        /\ r[1] = 1 \/ ~InClass(line, r[1] - 1, 1)
        /\ ~InClass(line, r[1] + r[2], 1)}

\* A word boundary before the 1-based index i of line: exactly one of the
\* characters on its two sides is a letter, a digit or an underscore.
WordBoundary(line, i) ==
    (i > 1 /\ IsWordChar(line[i - 1])) # (i <= Len(line) /\ IsWordChar(line[i]))

\* The pattern matches the k characters from i: a run of the class between
\* two word boundaries.
Matches(line, i, k) ==
    InClass(line, i, k) /\ WordBoundary(line, i) /\ WordBoundary(line, i + k)

\* The tokens are in order and apart, each with word the characters of the
\* line from pos.
WellPlaced(line, toks) ==
    /\ \A j \in 1..Len(toks) :
          /\ toks[j].pos + Len(toks[j].word) <= Len(line)
          /\ toks[j].word = SubSeq(line, toks[j].pos + 1, toks[j].pos + Len(toks[j].word))
    /\ \A j \in 1..(Len(toks) - 1) : toks[j].pos + Len(toks[j].word) <= toks[j + 1].pos

\* C28: for every line the default tokenizer yields exactly the maximal runs
\* of letters and apostrophes of at least 2 characters, left to right and
\* apart, with pos the 0-based start of the run and word its characters.
C28_TokensAreMaximalRuns ==
    \A i \in 1..Len(sessions) :
        TokensVisible(i)
           => LET toks == TokensSeen(sessions[i])
              IN  /\ WellPlaced(doc, toks)
                  /\ {<<toks[j].pos + 1, Len(toks[j].word)>> : j \in 1..Len(toks)}
                        = MaximalRuns(doc)

\* C28 as amended: the tokens are the matches of at least 2 characters of the
\* pattern between word boundaries, the longest match at its start each, left
\* to right and apart: every match of at least 2 characters begins inside a
\* token that starts no later; two scans of the same line see the same tokens.
C28_TokensAreBoundedMatches ==
    /\ \A i \in 1..Len(sessions) :
          TokensVisible(i)
             => LET toks == TokensSeen(sessions[i])
                IN  /\ WellPlaced(doc, toks)
                    /\ \A j \in 1..Len(toks) :
                          /\ Len(toks[j].word) >= 2
                          /\ Matches(doc, toks[j].pos + 1, Len(toks[j].word))
                          /\ \A k \in (Len(toks[j].word) + 1)..Len(doc) :
                                ~Matches(doc, toks[j].pos + 1, k)
                    /\ \A m \in (1..Len(doc)) \X (2..Len(doc)) :
                          Matches(doc, m[1], m[2])
                             => \E j \in 1..Len(toks) :
                                   /\ toks[j].pos + 1 <= m[1]
                                   /\ m[1] <= toks[j].pos + Len(toks[j].word)
    /\ \A i, j \in 1..Len(sessions) :
          (InFlight(i) /\ InFlight(j)) => sessions[i].words = sessions[j].words

\* C28 witness: two scans of the line 'zz' (in apostrophes) are suspended on
\* the token zz at pos 1, the apostrophes left out.
C28_Witness ==
    /\ doc = <<"'", "z", "z", "'">>
    /\ Len(sessions) = 2
    /\ InFlight(1) /\ InFlight(2)
    /\ sessions[2].words = <<(<<[word |-> zz, pos |-> 1]>>)>>

=============================================================================
